---- MODULE Spec2Model ----
(***************************************************************************)
(* A model of twosheds' command completion (twosheds/completer.py).        *)
(*                                                                         *)
(* Python strings are sequences of one-character strings, lists and the    *)
(* output of generators are sequences.  A generator that is consumed is a  *)
(* record [items, exc, listed]: the values it yields, the exception that   *)
(* ends it ("" when it ends normally) and the directories it listed.       *)
(***************************************************************************)
EXTENDS Integers, Sequences, FiniteSets, TLC

VARIABLES
    transforms,        \* Completer.transforms
    use_suffix,        \* Completer.use_suffix
    exclude_patterns,  \* Completer.exclude_patterns
    extensions,        \* Completer.extensions
    environ,           \* os.environ: the variable names, in iteration order
    fs,                \* the file system: [ls: directory -> entries, dirs: directories]
    stderr,            \* what was written to sys.stderr
    pc,                \* the caller's position
    call,              \* the call in progress or just returned, with its result
    rl_state,          \* the line editor's cursor: the next state it will pass
    rl_results         \* the completions the line editor has received so far

vars == <<transforms, use_suffix, exclude_patterns, extensions, environ, fs,
          stderr, pc, call, rl_state, rl_results>>

config == <<transforms, use_suffix, exclude_patterns, extensions>>
world == <<environ, fs>>

----------------------------------------------------------------------------
(* Bounds of the model. *)

\* the largest state the line editor passes to complete
MaxState == 5
\* the longest list of extensions a Completer is built with
MaxExt == 2
\* the longest list of exclusion patterns of a Completer that completes
MaxConfigPatterns == 1
\* the longest list of exclusion patterns given to the exclusion filter
MaxPatterns == 2
\* the longest directory listing given to gen_filename_completions
MaxEntries == 3
\* the longest candidate list given to exclude_matches
MaxMatches == 2

----------------------------------------------------------------------------
(* Strings. *)

RECURSIVE Flatten(_)
Flatten(ss) == IF ss = <<>> THEN <<>> ELSE Head(ss) \o Flatten(Tail(ss))

SeqsUpTo(S, n) == UNION {[1..k -> S] : k \in 0..n}

\* F(v), with v evaluated once
Bind(v, F(_)) == CHOOSE r \in {F(x) : x \in {v}} : TRUE

\* str.startswith
startswith(s, prefix) ==
    /\ Len(prefix) <= Len(s)
    /\ SubSeq(s, 1, Len(prefix)) = prefix

\* the "in" operator on strings: sub occurs somewhere in s
str_in(sub, s) ==
    \E i \in 0..(Len(s) - Len(sub)) : SubSeq(s, i + 1, i + Len(sub)) = sub

\* str.replace(" ", "\\ "), left to right
RECURSIVE _escape(_)
_escape(path) ==
    IF path = <<>> THEN <<>>
    ELSE (IF Head(path) = " " THEN <<"\\", " ">> ELSE <<Head(path)>>)
         \o _escape(Tail(path))

\* the position of the last "/" of p, 0 when there is none
LastSlash(p) ==
    IF \E i \in 1..Len(p) : p[i] = "/"
    THEN CHOOSE i \in 1..Len(p) :
             /\ p[i] = "/"
             /\ \A j \in (i + 1)..Len(p) : p[j] # "/"
    ELSE 0

RECURSIVE RStripSlash(_)
RStripSlash(s) ==
    IF s # <<>> /\ s[Len(s)] = "/" THEN RStripSlash(SubSeq(s, 1, Len(s) - 1))
    ELSE s

\* os.path.split (posixpath): the head loses its trailing slashes unless it
\* is made of slashes only
path_split(p) ==
    LET i == LastSlash(p)
        head == SubSeq(p, 1, i)
        tail == SubSeq(p, i + 1, Len(p))
    IN  [head |-> IF RStripSlash(head) # <<>> THEN RStripSlash(head) ELSE head,
         tail |-> tail]

\* os.path.join (posixpath) of two components
path_join(a, b) ==
    IF startswith(b, <<"/">>) THEN b
    ELSE IF a = <<>> \/ a[Len(a)] = "/" THEN a \o b
    ELSE a \o <<"/">> \o b

----------------------------------------------------------------------------
(* gen_filename_completions *)

_is_hidden_file(filename) == startswith(filename, <<".">>)

\* for filename in filenames: if filename.startswith(word): yield filename
RECURSIVE PrefixScan(_, _)
PrefixScan(word, filenames) ==
    IF filenames = <<>> THEN <<>>
    ELSE (IF startswith(Head(filenames), word) THEN <<Head(filenames)>> ELSE <<>>)
         \o PrefixScan(word, Tail(filenames))

\* for filename in filenames: if not self._is_hidden_file(filename): yield filename
RECURSIVE VisibleScan(_)
VisibleScan(filenames) ==
    IF filenames = <<>> THEN <<>>
    ELSE (IF ~_is_hidden_file(Head(filenames)) THEN <<Head(filenames)>> ELSE <<>>)
         \o VisibleScan(Tail(filenames))

\* for filename in filenames: if word in filename: yield filename
RECURSIVE SubstringScan(_, _)
SubstringScan(word, filenames) ==
    IF filenames = <<>> THEN <<>>
    ELSE (IF str_in(word, Head(filenames)) THEN <<Head(filenames)>> ELSE <<>>)
         \o SubstringScan(word, Tail(filenames))

\* the second scan runs whatever the first one found
gen_filename_completions_always_fallback(word, filenames) ==
    (IF word # <<>> THEN PrefixScan(word, filenames) ELSE VisibleScan(filenames))
    \o SubstringScan(word, filenames)

\* match_found is set exactly when the first scan yields
gen_filename_completions(word, filenames) ==
    LET first == IF word # <<>> THEN PrefixScan(word, filenames)
                 ELSE VisibleScan(filenames)
        match_found == first # <<>>
    IN  IF ~match_found THEN first \o SubstringScan(word, filenames)
        ELSE first

----------------------------------------------------------------------------
(* Regular expressions (module re).  A pattern is [ok, atoms]: ok is FALSE  *)
(* for a pattern re cannot compile; atoms is a sequence of [c, star], where *)
(* c is a character or "." (any character) and star marks a starred atom.   *)

AtomMatches(atom, ch) == atom.c = "." \/ atom.c = ch

\* re.match of compiled atoms: some prefix of s, from its first character,
\* matches the whole pattern
RECURSIVE re_match_atoms(_, _)
re_match_atoms(atoms, s) ==
    IF atoms = <<>> THEN TRUE
    ELSE LET a == Head(atoms)
         IN  IF a.star
             THEN \/ re_match_atoms(Tail(atoms), s)
                  \/ /\ s # <<>>
                     /\ AtomMatches(a, Head(s))
                     /\ re_match_atoms(atoms, Tail(s))
             ELSE /\ s # <<>>
                  /\ AtomMatches(a, Head(s))
                  /\ re_match_atoms(Tail(atoms), Tail(s))

\* re.match(pattern, s): "error" (re.error is raised), "match" or "none"
re_match(pattern, s) ==
    IF ~pattern.ok THEN "error"
    ELSE IF re_match_atoms(pattern.atoms, s) THEN "match" ELSE "none"

----------------------------------------------------------------------------
(* exclude_matches *)

\* the inner loop over self.exclude_patterns for one candidate: "drop" at the
\* first pattern that matches (break), "keep" when the loop ends (else),
\* "error" when re.match raises
RECURSIVE ExcludeOne(_, _)
ExcludeOne(patterns, match) ==
    IF patterns = <<>> THEN "keep"
    ELSE LET r == re_match(Head(patterns), match)
         IN  IF r = "error" THEN "error"
             ELSE IF r = "match" THEN "drop"
             ELSE ExcludeOne(Tail(patterns), match)

\* the outer loop: candidates are pulled from the source one at a time, so
\* the source's own exception comes after its items
RECURSIVE ExcludeLoop(_, _, _, _)
ExcludeLoop(patterns, items, exc, listed) ==
    IF items = <<>> THEN [items |-> <<>>, exc |-> exc, listed |-> listed]
    ELSE LET r == ExcludeOne(patterns, Head(items))
         IN  IF r = "error"
             THEN [items |-> <<>>, exc |-> "re.error", listed |-> listed]
             ELSE LET rest == ExcludeLoop(patterns, Tail(items), exc, listed)
                  IN  [rest EXCEPT !.items =
                          (IF r = "keep" THEN <<Head(items)>> ELSE <<>>) \o @]

\* only the first pattern is tried
exclude_matches_first_pattern_only(matches) ==
    ExcludeLoop(IF exclude_patterns = <<>> THEN <<>> ELSE <<Head(exclude_patterns)>>,
                matches.items, matches.exc, matches.listed)

exclude_matches(matches) ==
    ExcludeLoop(exclude_patterns, matches.items, matches.exc, matches.listed)

----------------------------------------------------------------------------
(* The strings of the model. *)

Empty == <<>>
Dot == <<".">>
Home == <<"/", "h">>
s_foo == <<"f", "o", "o">>
s_fold == <<"f", "o", "l", "d">>
s_fo == <<"f", "o">>
s_o == <<"o">>
s_a == <<"a">>
s_d == <<"d">>
s_hidden_f == <<".", "f">>
s_hidden_g == <<".", "g">>
s_a_b == <<"a", " ", "b">>
s_backup == <<"f", "o", "~">>
s_x_backup == <<"x", "~">>
s_d_slash == <<"d", "/">>
s_d_fo == <<"d", "/", "f", "o">>
s_tilde_fo == <<"~", "/", "f", "o">>
s_dollar == <<"$">>
s_dollar_HO == <<"$", "H", "O">>
s_HOME == <<"H", "O", "M", "E">>
s_HOSTNAME == <<"H", "O", "S", "T", "N", "A", "M", "E">>
s_PATH == <<"P", "A", "T", "H">>

----------------------------------------------------------------------------
(* Extensions: callables given by the host, run as extension(word).  Each   *)
(* yields candidates and may raise.                                         *)

\* yields the commands that start with the word
ExtCommands == "commands"
\* yields the word it was given
ExtEcho == "echo"
\* raises before it yields anything
ExtBroken == "broken"

Extensions == {ExtCommands, ExtEcho, ExtBroken}

RunExtension(extension, word) ==
    IF extension = ExtCommands
    THEN [items |-> PrefixScan(word, <<s_foo, s_fold>>), exc |-> ""]
    ELSE IF extension = ExtEcho
    THEN [items |-> <<word>>, exc |-> ""]
    ELSE [items |-> <<>>, exc |-> "ExtensionError"]

----------------------------------------------------------------------------
(* gen_variable_completions, gen_matches *)

\* for k in env: if k.startswith(var): yield "$" + k
RECURSIVE VariableScan(_, _)
VariableScan(var, env) ==
    IF env = <<>> THEN <<>>
    ELSE (IF startswith(Head(env), var) THEN <<<<"$">> \o Head(env)>> ELSE <<>>)
         \o VariableScan(var, Tail(env))

\* the whole word, sigil included, is taken as the variable's prefix
gen_variable_completions_keeps_sigil(word, env) == VariableScan(word, env)

gen_variable_completions(word, env) ==
    LET var == SubSeq(word, 2, Len(word))
    IN  VariableScan(var, env)

\* yield os.path.join(head, match) for every match
RECURSIVE JoinAll(_, _)
JoinAll(head, names) ==
    IF names = <<>> THEN <<>>
    ELSE <<path_join(head, Head(names))>> \o JoinAll(head, Tail(names))

\* for extension in self.extensions: for match in extension(word): yield match
RECURSIVE ExtensionsLoop(_, _)
ExtensionsLoop(exts, word) ==
    IF exts = <<>> THEN [items |-> <<>>, exc |-> ""]
    ELSE LET r == RunExtension(Head(exts), word)
         IN  IF r.exc # "" THEN r
             ELSE LET rest == ExtensionsLoop(Tail(exts), word)
                  IN  [rest EXCEPT !.items = r.items \o @]

\* the first branch of gen_matches: variables, or the files of the directory
FirstGenerator(word) ==
    IF startswith(word, <<"$">>)
    THEN [items |-> gen_variable_completions(word, environ), exc |-> "",
          listed |-> <<>>]
    ELSE LET ht == path_split(word)
             dir == IF ht.head # <<>> THEN ht.head ELSE Dot
         IN  IF dir \notin DOMAIN fs.ls
             THEN [items |-> <<>>, exc |-> "OSError", listed |-> <<dir>>]
             ELSE [items |-> JoinAll(ht.head,
                                gen_filename_completions(ht.tail, fs.ls[dir])),
                   exc |-> "", listed |-> <<dir>>]

\* the extensions run first, and in reverse order of registration
gen_matches_extensions_first(word) ==
    LET ext == ExtensionsLoop([i \in 1..Len(extensions) |->
                                  extensions[Len(extensions) + 1 - i]], word)
        first == FirstGenerator(word)
    IN  IF ext.exc # "" THEN [items |-> ext.items, exc |-> ext.exc, listed |-> <<>>]
        ELSE [first EXCEPT !.items = ext.items \o @]

gen_matches(word) ==
    Bind(FirstGenerator(word), LAMBDA first :
        IF first.exc # "" THEN first
        ELSE Bind(ExtensionsLoop(extensions, word), LAMBDA ext :
                 [items |-> first.items \o ext.items, exc |-> ext.exc,
                  listed |-> first.listed]))

----------------------------------------------------------------------------
(* inflect, get_matches *)

\* os.path.isdir
isdir(filename) == filename \in fs.dirs

\* the suffix is appended before the spaces are escaped
inflect_escapes_suffix(filename) ==
    _escape(filename \o (IF isdir(filename) THEN <<"/">> ELSE <<" ">>))

inflect(filename) ==
    LET suffix == IF isdir(filename) THEN <<"/">> ELSE <<" ">>
    IN  _escape(filename) \o suffix

\* [self.inflect(match) for match in matches]
RECURSIVE InflectAll(_)
InflectAll(matches) ==
    IF matches = <<>> THEN <<>>
    ELSE <<inflect(Head(matches))>> \o InflectAll(Tail(matches))

\* A result is [kind, val, exc, listed, err]: kind is "list" (val is the
\* list), "str" (val is <<the string>>), "None" or "raise" (exc names the
\* exception; for a generator val holds what it yielded before raising);
\* err is what the call wrote to sys.stderr.
Result(kind, val, exc, listed, err) ==
    [kind |-> kind, val |-> val, exc |-> exc, listed |-> listed, err |-> err]

\* Calling the generator function exclude_matches runs none of its body: the
\* call returns a generator object and raises nothing.
ExcludeCallRaises == FALSE

\* matches = self.gen_matches(word); matches = self.exclude_matches(matches)
\* builds the generators; they run when the list is built, after the try
get_matches(word) ==
    IF ExcludeCallRaises
    THEN Result("None", <<>>, "", <<>>, <<"traceback">>)
    ELSE Bind(exclude_matches(gen_matches(word)), LAMBDA matches :
             IF matches.exc # ""
             THEN Result("raise", <<>>, matches.exc, matches.listed, <<>>)
             ELSE Result("list",
                         IF use_suffix THEN InflectAll(matches.items)
                         ELSE matches.items,
                         "", matches.listed, <<>>))

----------------------------------------------------------------------------
(* transform (module transform) and complete *)

\* the tilde rule: "~" stands for the home directory
Tilde == "tilde"

ApplyRule(rule, sentence, inverse) ==
    IF rule = Tilde /\ ~inverse /\ startswith(sentence, <<"~">>)
    THEN Home \o SubSeq(sentence, 2, Len(sentence))
    ELSE IF rule = Tilde /\ inverse /\ startswith(sentence, Home)
    THEN <<"~">> \o SubSeq(sentence, Len(Home) + 1, Len(sentence))
    ELSE sentence

\* the rules in list order going forward, in reverse order going back
RECURSIVE transform(_, _, _)
transform(sentence, transformations, inverse) ==
    IF transformations = <<>> THEN sentence
    ELSE IF inverse
    THEN transform(ApplyRule(transformations[Len(transformations)], sentence, TRUE),
                   SubSeq(transformations, 1, Len(transformations) - 1), TRUE)
    ELSE transform(ApplyRule(Head(transformations), sentence, FALSE),
                   Tail(transformations), FALSE)

\* the index is taken one too far
complete_off_by_one(word, state) ==
    Bind(get_matches(transform(word, transforms, FALSE)), LAMBDA got :
        IF got.kind = "raise" THEN got
        ELSE IF got.kind = "None"
        THEN Result("raise", <<>>, "TypeError", got.listed, got.err)
        ELSE IF state + 1 >= Len(got.val)
        THEN Result("None", <<>>, "", got.listed, got.err)
        ELSE Result("str", <<transform(got.val[state + 2], transforms, TRUE)>>,
                    "", got.listed, got.err))

\* state is an index from 0; Python sequences here are indexed from 1.
\* (The import of rl and rl.completion.suppress_append belong to the line
\* editor and are left out.)
complete(word, state) ==
    Bind(get_matches(transform(word, transforms, FALSE)), LAMBDA got :
        IF got.kind = "raise" THEN got
        ELSE IF got.kind = "None"
        THEN Result("raise", <<>>, "TypeError", got.listed, got.err)
        ELSE IF state >= Len(got.val)
        THEN Result("None", <<>>, "", got.listed, got.err)
        ELSE Result("str", <<transform(got.val[state + 1], transforms, TRUE)>>,
                    "", got.listed, got.err))

----------------------------------------------------------------------------
(* The configurations, the environments and the inputs of the model. *)

Lit(ch) == [c |-> ch, star |-> FALSE]
Star(ch) == [c |-> ch, star |-> TRUE]

\* r'.*~'
PatBackup == [ok |-> TRUE, atoms |-> <<Star("."), Lit("~")>>]
\* r'o'
PatO == [ok |-> TRUE, atoms |-> <<Lit("o")>>]
\* r'a b'
PatAB == [ok |-> TRUE, atoms |-> <<Lit("a"), Lit(" "), Lit("b")>>]
\* r'[', which re cannot compile
PatBad == [ok |-> FALSE, atoms |-> <<>>]

ConfigPatterns == {PatBackup, PatBad}
AllPatterns == {PatBackup, PatO, PatAB, PatBad}

FS1 == [ls |-> (Dot :> <<s_foo, s_hidden_f, s_d, s_a_b, s_backup>>)
               @@ (s_d :> <<s_x_backup, s_fo>>)
               @@ (Home :> <<s_foo>>),
        dirs |-> {Dot, s_d, Home}]
FS2 == [ls |-> (Dot :> <<s_hidden_f, s_hidden_g>>),
        dirs |-> {Dot}]
FS3 == [ls |-> (Dot :> <<s_a_b, s_fold>>) @@ (s_a_b :> <<>>),
        dirs |-> {Dot, s_a_b}]

FileSystems == {FS1, FS2, FS3}

Environs == {<<s_HOME, s_PATH, s_HOSTNAME>>, <<s_PATH>>}

Words == {Empty, s_fo, s_o, s_a, s_d_slash, s_d_fo, s_tilde_fo, s_dollar,
          s_dollar_HO}

NoDuplicates(seq) == \A i, j \in 1..Len(seq) : seq[i] = seq[j] => i = j

Fragments == {Empty, s_fo, s_o, <<"a", "n">>, Dot}
Names == {s_foo, s_fold, s_hidden_f, s_a_b,
          <<"a", "p", "p", "l", "e">>,
          <<"b", "a", "n", "a", "n", "a">>,
          <<"g", "r", "a", "p", "e">>}
Listings == {l \in SeqsUpTo(Names, MaxEntries) : NoDuplicates(l)}

Candidates == {s_foo, s_backup, s_a_b, s_o, <<"d", "/", "x", "~">>}

----------------------------------------------------------------------------
(* The caller: it is idle, makes a call and takes the result.  The line     *)
(* editor calls complete with state 0, 1, 2, ... until it returns None.     *)

NoResult == Result("", <<>>, "", <<>>, <<>>)
NoCall == [op |-> "", word |-> <<>>, arg |-> <<>>, res |-> NoResult]

Caller ==
    /\ stderr = <<>>
    /\ pc = "idle"
    /\ call = NoCall
    /\ rl_state = 0
    /\ rl_results = <<>>

Init ==
    /\ transforms \in {<<>>, <<Tilde>>}
    /\ use_suffix \in BOOLEAN
    /\ exclude_patterns \in SeqsUpTo(ConfigPatterns, MaxConfigPatterns)
    /\ extensions \in SeqsUpTo(Extensions, MaxExt)
    /\ environ \in Environs
    /\ fs \in FileSystems
    /\ Caller

\* Completer([]) in the first file system
InitFilename ==
    /\ transforms = <<>>
    /\ use_suffix = TRUE
    /\ exclude_patterns = <<>>
    /\ extensions = <<>>
    /\ environ = <<s_HOME, s_PATH, s_HOSTNAME>>
    /\ fs = FS1
    /\ Caller

\* Completer([], use_suffix, exclude)
InitExclude ==
    /\ transforms = <<>>
    /\ use_suffix \in BOOLEAN
    /\ exclude_patterns \in SeqsUpTo(AllPatterns, MaxPatterns)
    /\ extensions = <<>>
    /\ environ = <<s_HOME, s_PATH, s_HOSTNAME>>
    /\ fs \in FileSystems
    /\ Caller

\* what a consumed generator gave its consumer
Consumed(gen) ==
    Result(IF gen.exc = "" THEN "list" ELSE "raise", gen.items, gen.exc,
           gen.listed, <<>>)

Returned(op, word, arg, result) ==
    /\ pc = "idle"
    /\ \E res \in {result} :
           /\ call' = [op |-> op, word |-> word, arg |-> arg, res |-> res]
           /\ stderr' = stderr \o res.err
    /\ pc' = "returned"
    /\ UNCHANGED <<config, world, rl_state, rl_results>>

GenFilenameCompletions(word, filenames) ==
    Returned("gen_filename_completions", word, filenames,
             Result("list", gen_filename_completions(word, filenames), "", <<>>, <<>>))

ExcludeMatches(matches) ==
    Returned("exclude_matches", <<>>, matches,
             Consumed(exclude_matches([items |-> matches, exc |-> "", listed |-> <<>>])))

GenMatches(word) == Returned("gen_matches", word, <<>>, Consumed(gen_matches(word)))

GetMatches(word) == Returned("get_matches", word, <<>>, get_matches(word))

\* one call of complete
Complete(word, state) == Returned("complete", word, <<state>>, complete(word, state))

CompleteStart(word) ==
    /\ pc = "idle"
    /\ pc' = "completing"
    /\ call' = [op |-> "complete", word |-> word, arg |-> <<>>, res |-> NoResult]
    /\ rl_state' = 0
    /\ rl_results' = <<>>
    /\ UNCHANGED <<config, world, stderr>>

CompleteStep ==
    /\ pc = "completing"
    /\ rl_state <= MaxState
    /\ \E res \in {complete(call.word, rl_state)} :
           /\ call' = [call EXCEPT !.arg = <<rl_state>>, !.res = res]
           /\ stderr' = stderr \o res.err
           /\ IF res.kind = "str"
              THEN /\ rl_results' = Append(rl_results, res.val[1])
                   /\ rl_state' = rl_state + 1
                   /\ pc' = "completing"
              ELSE /\ pc' = IF res.kind = "None" THEN "finished" ELSE "aborted"
                   /\ UNCHANGED <<rl_state, rl_results>>
    /\ UNCHANGED <<config, world>>

Return ==
    /\ pc \in {"returned", "finished", "aborted"}
    /\ pc' = "idle"
    /\ call' = NoCall
    /\ rl_state' = 0
    /\ rl_results' = <<>>
    /\ UNCHANGED <<config, world, stderr>>

Next ==
    \/ \E word \in Words : GenMatches(word)
    \/ \E word \in Words : GetMatches(word)
    \/ \E word \in Words, state \in 0..MaxState : Complete(word, state)
    \/ \E word \in Words : CompleteStart(word)
    \/ CompleteStep
    \/ Return

Spec == Init /\ [][Next]_vars

NextFilename ==
    \/ \E word \in Fragments, filenames \in Listings :
           GenFilenameCompletions(word, filenames)
    \/ Return

SpecFilename == InitFilename /\ [][NextFilename]_vars

NextExclude ==
    \/ \E matches \in SeqsUpTo(Candidates, MaxMatches) : ExcludeMatches(matches)
    \/ \E word \in Words : GetMatches(word)
    \/ Return

SpecExclude == InitExclude /\ [][NextExclude]_vars

----------------------------------------------------------------------------
(* What the properties are stated with. *)

\* p is an initial segment of s
IsPrefix(p, s) == \E k \in 0..Len(s) : SubSeq(s, 1, k) = p

\* p occurs in s
Occurs(p, s) == \E i \in 1..(Len(s) + 1), j \in 0..Len(s) : SubSeq(s, i, j) = p

\* the elements of seq
Range(seq) == {seq[i] : i \in 1..Len(seq)}

WellFormed(patterns) == \A i \in 1..Len(patterns) : patterns[i].ok

----------------------------------------------------------------------------
(* C8, C9, C2: gen_filename_completions *)

IsFilenameCall == pc = "returned" /\ call.op = "gen_filename_completions"

\* C8: for an empty fragment gen_filename_completions yields exactly the
\* entries whose name does not begin with ".", so no hidden entry at all,
\* also when every entry of the listing is hidden.
C8_HiddenExcludedOnEmptyFragment ==
    (IsFilenameCall /\ call.word = <<>>) =>
        call.res.val = SelectSeq(call.arg, LAMBDA f : ~IsPrefix(Dot, f))

\* C9: for a non-empty fragment gen_filename_completions yields, in listing
\* order, exactly the entries that start with the fragment when there is one,
\* and otherwise exactly the entries that contain it; from the entries
\* apple, banana, grape the fragment "an" yields banana alone.
C9_TwoPhaseSearch ==
    (IsFilenameCall /\ call.word # <<>>) =>
        LET starting == SelectSeq(call.arg, LAMBDA f : IsPrefix(call.word, f))
            containing == SelectSeq(call.arg, LAMBDA f : Occurs(call.word, f))
        IN  /\ call.res.kind = "list"
            /\ call.res.val = IF starting # <<>> THEN starting ELSE containing
            /\ (call.word = <<"a", "n">> /\ NoDuplicates(call.arg)
                /\ Range(call.arg) = {<<"a", "p", "p", "l", "e">>,
                                      <<"b", "a", "n", "a", "n", "a">>,
                                      <<"g", "r", "a", "p", "e">>})
               => call.res.val = << <<"b", "a", "n", "a", "n", "a">> >>

\* the substring phase answered, and left an entry out
C9_Witness ==
    /\ IsFilenameCall
    /\ call.word = <<"a", "n">>
    /\ call.arg = << <<"a", "p", "p", "l", "e">>, <<"b", "a", "n", "a", "n", "a">>,
                    <<"g", "r", "a", "p", "e">> >>
    /\ call.res.val = << <<"b", "a", "n", "a", "n", "a">> >>

----------------------------------------------------------------------------
(* C1, C2: complete *)

IsCompleteCall == call.op = "complete" /\ call.arg # <<>>

\* the match list of the word of the call in progress: get_matches of the
\* forward-transformed word
MatchList == get_matches(transform(call.word, transforms, FALSE))

\* the n-th match (n from 0), transformed back
NthMatch(n) == transform(MatchList.val[n + 1], transforms, TRUE)

\* C1: when the match list of a word has k entries, complete(word, n)
\* returns the inverse-transformed n-th match for 0 <= n < k and None for
\* n >= k; called with state 0, 1, 2, ... it hands out every match once, in
\* list order, and returns None at state k.
C1_StateExhaustion ==
    (IsCompleteCall /\ MatchList.kind = "list") =>
        LET k == Len(MatchList.val)
            n == call.arg[1]
        IN  /\ n < k => call.res.kind = "str" /\ call.res.val = <<NthMatch(n)>>
            /\ n >= k => call.res.kind = "None"
            /\ pc \in {"completing", "finished"} =>
                   /\ rl_state <= k
                   /\ rl_results = [i \in 1..rl_state |-> NthMatch(i - 1)]
            /\ pc = "finished" => rl_state = k /\ n = k
            /\ pc # "aborted"

\* the line editor got two matches back in the user's syntax, then None
C1_Witness ==
    /\ pc = "finished"
    /\ IsCompleteCall
    /\ transforms = <<Tilde>>
    /\ call.word = s_tilde_fo
    /\ Len(rl_results) = 2
    /\ IsPrefix(<<"~">>, rl_results[1])
    /\ call.res.kind = "None"

\* C2: for a non-empty word that does not start with "$", with no transforms
\* and no extensions, every string complete returns begins with the word.
C2_CompletionBeginsWithWord ==
    (/\ IsCompleteCall
     /\ call.word # <<>>
     /\ ~IsPrefix(<<"$">>, call.word)
     /\ transforms = <<>>
     /\ extensions = <<>>
     /\ call.res.kind = "str") => IsPrefix(call.word, call.res.val[1])

----------------------------------------------------------------------------
(* C3, C4: failures *)

IsGetMatchesCall == pc = "returned" /\ call.op = "get_matches"

\* the word gen_matches is given in the call: complete transforms it first
GeneratedWord ==
    IF call.op = "complete" THEN transform(call.word, transforms, FALSE)
    ELSE call.word

\* C3: with a malformed exclusion pattern configured and at least one
\* candidate generated, get_matches writes a diagnostic to the error stream
\* and returns None, and complete does not raise.
C3_MalformedRuleGivesNone ==
    (/\ ~WellFormed(exclude_patterns)
     /\ gen_matches(GeneratedWord).exc = ""
     /\ gen_matches(GeneratedWord).items # <<>>) =>
        /\ IsGetMatchesCall => call.res.kind = "None" /\ stderr # <<>>
        /\ IsCompleteCall => call.res.kind # "raise"

\* C4: a directory that cannot be listed, or an extension that raises,
\* contributes no (further) candidates, and get_matches and complete still
\* return normally.
C4_GeneratorFailuresContained ==
    WellFormed(exclude_patterns) =>
        /\ IsGetMatchesCall => call.res.kind = "list"
        /\ IsCompleteCall => call.res.kind \in {"str", "None"}

----------------------------------------------------------------------------
(* C5: the exclusion filter *)

IsExcludeCall == pc = "returned" /\ call.op = "exclude_matches"

\* no pattern matches the candidate
Survives(match) ==
    \A i \in 1..Len(exclude_patterns) : re_match(exclude_patterns[i], match) = "none"

\* C5: with well-formed patterns exclude_matches yields, in their order,
\* exactly the candidates no pattern matches, a pattern matching from the
\* start of the raw candidate (r'o' drops "o" and keeps "foo"), and yields
\* its input unchanged when there is no pattern; get_matches filters the
\* raw candidates, before they are inflected.
C5_ExclusionFilter ==
    WellFormed(exclude_patterns) =>
        /\ IsExcludeCall =>
               /\ call.res.kind = "list"
               /\ call.res.val = SelectSeq(call.arg, Survives)
               /\ exclude_patterns = <<>> => call.res.val = call.arg
               /\ (PatO \in Range(exclude_patterns) /\ call.arg = <<s_foo, s_o>>)
                  => call.res.val = <<s_foo>>
        /\ (IsGetMatchesCall /\ call.res.kind = "list") =>
               LET kept == SelectSeq(gen_matches(call.word).items, Survives)
               IN  call.res.val =
                       [i \in 1..Len(kept) |->
                           IF use_suffix THEN inflect(kept[i]) ELSE kept[i]]

\* the second of two patterns dropped the first candidate, and the second
\* candidate was kept
C5_Witness ==
    /\ IsExcludeCall
    /\ exclude_patterns = <<PatO, PatBackup>>
    /\ call.arg = <<s_backup, s_foo>>
    /\ call.res.val = <<s_foo>>

----------------------------------------------------------------------------
(* C6, C10: gen_matches *)

IsGenMatchesCall == pc = "returned" /\ call.op = "gen_matches"

\* what the extensions yield for a word, in registration order, up to the
\* first one that raises
RECURSIVE ExtensionOutput(_, _)
ExtensionOutput(n, word) ==
    IF n = 0 THEN <<>>
    ELSE IF \E i \in 1..(n - 1) : RunExtension(extensions[i], word).exc # ""
    THEN ExtensionOutput(n - 1, word)
    ELSE ExtensionOutput(n - 1, word) \o RunExtension(extensions[n], word).items

\* C6: for a word that begins with "$", gen_matches lists no directory and
\* yields, before any extension output, exactly "$" + k for each variable
\* name k that starts with word[1:], in the order of the environment; with
\* HOME and HOSTNAME defined, "$HO" yields $HOME and $HOSTNAME.
C6_VariableDispatch ==
    (IsGenMatchesCall /\ IsPrefix(<<"$">>, call.word)) =>
        LET names == SelectSeq(environ, LAMBDA k : IsPrefix(Tail(call.word), k))
            variables == [i \in 1..Len(names) |-> <<"$">> \o names[i]]
        IN  /\ call.res.listed = <<>>
            /\ call.res.val =
                   variables \o ExtensionOutput(Len(extensions), call.word)
            /\ (call.word = s_dollar_HO
                /\ {s_HOME, s_HOSTNAME} \subseteq Range(environ))
               => {<<"$">> \o s_HOME, <<"$">> \o s_HOSTNAME} = Range(variables)

\* "$HO" gave $HOME and $HOSTNAME, then what an extension yielded
C6_Witness ==
    /\ IsGenMatchesCall
    /\ call.word = s_dollar_HO
    /\ extensions = <<ExtEcho>>
    /\ call.res.val = <<<<"$">> \o s_HOME, <<"$">> \o s_HOSTNAME, s_dollar_HO>>

----------------------------------------------------------------------------
(* C7: inflection *)

\* every space of the name with a backslash before it
Escaped(name) ==
    Flatten([i \in 1..Len(name) |->
                IF name[i] = " " THEN <<"\\", " ">> ELSE <<name[i]>>])

\* C7: with use_suffix every element of get_matches(word) is a surviving
\* candidate with each space replaced by backslash-space, followed by one
\* character: "/" if the candidate is a directory, else a space that is not
\* escaped; without use_suffix every element is the raw candidate.
C7_Inflection ==
    (IsGetMatchesCall /\ call.res.kind = "list") =>
        LET raw == exclude_matches(gen_matches(call.word)).items
        IN  /\ Len(call.res.val) = Len(raw)
            /\ \A i \in 1..Len(raw) :
                   call.res.val[i] =
                       IF use_suffix
                       THEN Escaped(raw[i])
                            \o (IF raw[i] \in fs.dirs THEN <<"/">> ELSE <<" ">>)
                       ELSE raw[i]

\* a directory and a file, a space in the directory's name
C7_Witness ==
    /\ IsGetMatchesCall
    /\ use_suffix
    /\ call.word = <<>>
    /\ call.res.val = << <<"a", "\\", " ", "b", "/">>, <<"f", "o", "l", "d", " ">> >>

====
